---- MODULE Spec2Model ----
(***************************************************************************)
(* raft-buntdb: the BuntStore log store / stable store on top of an       *)
(* ordered, transactional key-value engine (BuntDB).                       *)
(*                                                                         *)
(* Strings and byte slices are sequences of byte values (0..255).          *)
(* The engine content is a function from key strings to value strings.     *)
(* The repository holds two snapshots of util.go (decimal keys and         *)
(* little-endian binary keys); the variable util says which one the        *)
(* build links against bunt_store.go.                                      *)
(***************************************************************************)
EXTENDS Integers, Sequences, FiniteSets, TLC

VARIABLES
    util,        \* "decimal" (20-digit keys) or "binary" (8-byte LE keys)
    closed,      \* TRUE once Close has been called on the store
    db,          \* committed engine content: key string -> value string
    tx,          \* the engine's single write transaction (op = "idle" when none)
    ret,         \* the most recently completed call and what it returned
    logs,        \* history: index -> the entry most recently stored there
    conf,        \* history: stable-store key -> the value most recently Set
    pure,        \* the pure function last applied (SpecUtil only)
    file,        \* the database file: the durability level it was opened
                 \* with, the engine's sync policy, the content synced to disk
    conn         \* the engine handle: store is TRUE when NewBuntStore returned
                 \* a store, handle when the engine holds the file open,
                 \* autoShrinkDisabled the configuration of the open handle

vars == <<util, closed, db, tx, ret, logs, conf, pure, file, conn>>

----------------------------------------------------------------------------
(* Bounds and program constants *)

\* stand-in for 2^64-1, the largest uint64 (indices are taken modulo MaxUint64+1)
MaxUint64 == 511
\* longest batch handed to StoreLogs
MaxBatch == 2
\* longest peer list handed to SetPeers
MaxPeers == 2
ByteRadix == 256
KeyBytes == 8
KeyDigits == 20
HeaderLen == 17

dbLogs == <<108, 58>>      \* "l:"

\* a metadata prefix that sorts after the log prefix: "m:"
dbConf_afterLogs == <<109, 58>>

dbConf == <<99, 58>>       \* "c:"

Utils == {"decimal", "binary"}

Uint64 == 0..MaxUint64

\* the value a Go runtime panic is recorded as
Panic == -1

\* the durability levels of the snapshot part_002
Low == -1
Medium == 0
High == 1

Levels == {Low, Medium, High}

----------------------------------------------------------------------------
(* Byte strings *)

\* byte-wise (lexicographic) order of Go strings, as the engine orders keys
StrLess(a, b) ==
    \E n \in 0..Len(a) :
        /\ n <= Len(b)
        /\ \A m \in 1..n : a[m] = b[m]
        /\ IF n = Len(a) THEN Len(b) > n
                         ELSE n < Len(b) /\ a[n + 1] < b[n + 1]

\* s[n:] of a Go string
Drop(s, n) == SubSeq(s, n + 1, Len(s))

----------------------------------------------------------------------------
(* util.go: the binary codec and the key encoder *)

RECURSIVE PutUintLE(_, _)
\* binary.LittleEndian.PutUint64 into n bytes
PutUintLE(u, n) ==
    IF n = 0 THEN <<>>
    ELSE <<u % ByteRadix>> \o PutUintLE(u \div ByteRadix, n - 1)

RECURSIVE UintLE(_)
\* binary.LittleEndian.Uint64 of the bytes b
UintLE(b) ==
    IF b = <<>> THEN 0
    ELSE b[1] + ByteRadix * UintLE(Tail(b))

RECURSIVE FormatUint(_)
\* strconv.FormatUint(u, 10) as ASCII digits
FormatUint(u) ==
    IF u < 10 THEN <<48 + u>>
    ELSE FormatUint(u \div 10) \o <<48 + (u % 10)>>

IsDigit(c) == c >= 48 /\ c <= 57

RECURSIVE ParseDigits(_, _)
\* the value of the digit string s after the accumulator acc, saturating
\* above MaxUint64 (the range error of strconv.ParseUint)
ParseDigits(s, acc) ==
    IF s = <<>> THEN acc
    ELSE IF acc > MaxUint64 THEN acc
    ELSE ParseDigits(Tail(s), acc * 10 + (s[1] - 48))

\* strconv.ParseUint(s, 10, 64): the number and the error
ParseUint(s) ==
    IF s = <<>> \/ \E m \in 1..Len(s) : ~IsDigit(s[m])
    THEN [n |-> 0, err |-> "syntax"]
    ELSE IF ParseDigits(s, 0) > MaxUint64
         THEN [n |-> MaxUint64, err |-> "range"]
         ELSE [n |-> ParseDigits(s, 0), err |-> "nil"]

Zeros(n) == [m \in 1..n |-> 48]

\* uint64ToString of the decimal snapshot without the padding
uint64ToString_decimal_unpadded(u) == FormatUint(u)

\* uint64ToString of the decimal snapshot
uint64ToString_decimal(u) ==
    LET s == Zeros(KeyDigits) \o FormatUint(u)
    IN  SubSeq(s, Len(s) - KeyDigits + 1, Len(s))

\* stringToUint64 of the decimal snapshot: the parse error is dropped
stringToUint64_decimal(s) == ParseUint(s).n

\* uint64ToString of the binary snapshot
uint64ToString_binary(u) == PutUintLE(u, KeyBytes)

\* stringToUint64 of the binary snapshot: reading 8 bytes of a shorter
\* slice panics
stringToUint64_binary(s) ==
    IF Len(s) < KeyBytes THEN Panic ELSE UintLE(SubSeq(s, 1, KeyBytes))

uint64ToStringOf(u, x) ==
    IF u = "decimal" THEN uint64ToString_decimal(x) ELSE uint64ToString_binary(x)

stringToUint64Of(u, s) ==
    IF u = "decimal" THEN stringToUint64_decimal(s) ELSE stringToUint64_binary(s)

\* the key suffix of every index under either snapshot, computed once
KeyTable == [u \in Utils |-> [x \in Uint64 |-> uint64ToStringOf(u, x)]]

uint64ToString(x) == KeyTable[util][x]

stringToUint64(s) == stringToUint64Of(util, s)

\* encodeLog with the index written into the term field as well
encodeLog_indexTwice(in) ==
    [val |-> PutUintLE(in.index, 8) \o PutUintLE(in.index, 8)
                 \o <<in.type % ByteRadix>> \o in.data,
     err |-> "nil"]

\* encodeLog: 8 bytes index, 8 bytes term, 1 byte type, then the data
encodeLog(in) ==
    [val |-> PutUintLE(in.index, 8) \o PutUintLE(in.term, 8)
                 \o <<in.type % ByteRadix>> \o in.data,
     err |-> "nil"]

NoLog == [index |-> 0, term |-> 0, type |-> 0, data |-> <<>>]

\* decodeLog taking a buffer of 16 bytes for a whole header
decodeLog_shortHeader(buf) ==
    IF Len(buf) < HeaderLen - 1
    THEN [log |-> NoLog, err |-> "invalid buffer"]
    ELSE [log |-> [index |-> UintLE(SubSeq(buf, 1, 8)),
                   term  |-> UintLE(SubSeq(buf, 9, 16)),
                   type  |-> IF Len(buf) >= HeaderLen THEN buf[17] ELSE 0,
                   data  |-> Drop(buf, 17)],
          err |-> "nil"]

\* decodeLog: fails on a buffer shorter than the header
decodeLog(buf) ==
    IF Len(buf) < HeaderLen
    THEN [log |-> NoLog, err |-> "invalid buffer"]
    ELSE [log |-> [index |-> UintLE(SubSeq(buf, 1, 8)),
                   term  |-> UintLE(SubSeq(buf, 9, 16)),
                   type  |-> buf[17],
                   data  |-> Drop(buf, 17)],
          err |-> "nil"]

----------------------------------------------------------------------------
(* The key-value engine (BuntDB) as bunt_store.go uses it *)

EmptyDB == <<>>

\* tx.Get
TxGet(d, key) ==
    IF key \in DOMAIN d THEN [val |-> d[key], err |-> "nil"]
                        ELSE [val |-> <<>>, err |-> "ErrNotFound"]

\* tx.Set writing the value over the bytes of the old one, of which the
\* bytes beyond the new value stay
TxSet_overlay(d, key, val) ==
    [k \in DOMAIN d \cup {key} |->
        IF k # key THEN d[k]
        ELSE IF key \in DOMAIN d /\ Len(d[key]) > Len(val)
             THEN val \o SubSeq(d[key], Len(val) + 1, Len(d[key]))
             ELSE val]

\* tx.Set: the whole value under key is replaced
TxSet(d, key, val) ==
    [k \in DOMAIN d \cup {key} |-> IF k = key THEN val ELSE d[k]]

\* tx.Delete
TxDelete(d, key) ==
    IF key \in DOMAIN d
    THEN [db |-> [k \in DOMAIN d \ {key} |-> d[k]], err |-> "nil"]
    ELSE [db |-> d, err |-> "ErrNotFound"]

\* the smallest key of the non-empty set S in the engine's order
MinKey(S) == CHOOSE k \in S : \A o \in S : o = k \/ StrLess(k, o)

\* the largest key of the non-empty set S in the engine's order
MaxKey(S) == CHOOSE k \in S : \A o \in S : o = k \/ StrLess(o, k)

\* tx.AscendGreaterOrEqual("", pivot, iter) with an iterator that stops at
\* the first item: the keys the iterator is called on
AscendGreaterOrEqualFirst(d, pivot) ==
    LET S == {k \in DOMAIN d : k = pivot \/ StrLess(pivot, k)}
    IN  IF S = {} THEN {} ELSE {MinKey(S)}

\* tx.DescendGreaterThan("", pivot, iter) with an iterator that stops at the
\* first item: the keys the iterator is called on
DescendGreaterThanFirst(d, pivot) ==
    LET S == {k \in DOMAIN d : StrLess(pivot, k)}
    IN  IF S = {} THEN {} ELSE {MaxKey(S)}

\* db.View / db.Update on a closed database
ErrDatabaseClosed == "ErrDatabaseClosed"

\* NewBuntStore giving level High the policy of level Medium
SyncPolicy_highEverySecond(durability) ==
    IF durability = Low THEN "Never" ELSE "EverySecond"

\* the config.SyncPolicy NewBuntStore sets for a durability level; the
\* engine's default, EverySecond, stays for any other number
SyncPolicy(durability) ==
    IF durability = Low THEN "Never"
    ELSE IF durability = Medium THEN "EverySecond"
    ELSE IF durability = High THEN "Always"
    ELSE "EverySecond"

\* the file of a store opened with a durability level on the disk content d
OpenFile(durability, d) ==
    [level |-> durability, policy |-> SyncPolicy(durability), disk |-> d]

\* the file after a write transaction has ended with the committed content
\* d: under the policy Always the engine syncs the file before db.Update
\* returns
AfterCommit(f, d) == IF f.policy = "Always" THEN [f EXCEPT !.disk = d] ELSE f

\* the engine calls of NewBuntStore that may fail, "nil" when none does
OpenFailures == {"nil", "Open", "ReadConfig", "SetConfig"}

\* no store and no handle; the engine's default configuration shrinks the
\* file automatically
NoConn == [store |-> FALSE, handle |-> FALSE, autoShrinkDisabled |-> FALSE]

\* NewBuntStore leaving the handle open when db.SetConfig fails
NewBuntStoreResult_leak(fail) ==
    IF fail = "Open" THEN [conn |-> NoConn, err |-> fail]
    ELSE IF fail = "ReadConfig" THEN [conn |-> NoConn, err |-> fail]
    ELSE IF fail = "SetConfig"
    THEN [conn |-> [NoConn EXCEPT !.handle = TRUE], err |-> fail]
    ELSE [conn |-> [store |-> TRUE, handle |-> TRUE, autoShrinkDisabled |-> TRUE],
          err |-> "nil"]

\* NewBuntStore leaving the engine's configuration as it read it
NewBuntStoreResult_defaultConfig(fail) ==
    IF fail = "Open" THEN [conn |-> NoConn, err |-> fail]
    ELSE IF fail = "ReadConfig" THEN [conn |-> NoConn, err |-> fail]
    ELSE IF fail = "SetConfig" THEN [conn |-> NoConn, err |-> fail]
    ELSE [conn |-> [store |-> TRUE, handle |-> TRUE, autoShrinkDisabled |-> FALSE],
          err |-> "nil"]

\* NewBuntStore: buntdb.Open, db.ReadConfig, db.SetConfig in this order, the
\* first that fails ends the call; the handle and the store it leaves and
\* the error it returns
NewBuntStoreResult(fail) ==
    IF fail = "Open"
    THEN \* nothing was opened: return nil, err
         [conn |-> NoConn, err |-> fail]
    ELSE IF fail = "ReadConfig"
    THEN \* db.Close(); return nil, err
         [conn |-> [NoConn EXCEPT !.handle = FALSE], err |-> fail]
    ELSE IF fail = "SetConfig"
    THEN \* db.Close(); return nil, err
         [conn |-> [NoConn EXCEPT !.handle = FALSE], err |-> fail]
    ELSE \* config.AutoShrinkDisabled = true; return store, nil
         [conn |-> [store |-> TRUE, handle |-> TRUE, autoShrinkDisabled |-> TRUE],
          err |-> "nil"]

----------------------------------------------------------------------------
(* bunt_store.go: the read operations, as functions of the committed content *)

LogKey(idx) == dbLogs \o uint64ToString(idx)

\* FirstIndex: the value and the error returned
FirstIndex(d, isClosed) ==
    IF isClosed THEN [val |-> 0, err |-> ErrDatabaseClosed]
    ELSE LET hit  == AscendGreaterOrEqualFirst(d, dbLogs)
             snum == IF hit = {} THEN <<>>
                     ELSE Drop(CHOOSE k \in hit : TRUE, Len(dbLogs))
         IN  IF snum = <<>> THEN [val |-> 0, err |-> "nil"]
             ELSE [val |-> stringToUint64(snum), err |-> "nil"]

\* LastIndex: the value and the error returned
LastIndex(d, isClosed) ==
    IF isClosed THEN [val |-> 0, err |-> ErrDatabaseClosed]
    ELSE LET hit  == DescendGreaterThanFirst(d, dbLogs)
             snum == IF hit = {} THEN <<>>
                     ELSE Drop(CHOOSE k \in hit : TRUE, Len(dbLogs))
         IN  IF snum = <<>> THEN [val |-> 0, err |-> "nil"]
             ELSE [val |-> stringToUint64(snum), err |-> "nil"]

\* GetLog without the translation of ErrNotFound
GetLog_untranslated(d, isClosed, idx) ==
    IF isClosed THEN [val |-> NoLog, err |-> ErrDatabaseClosed]
    ELSE LET g == TxGet(d, dbLogs \o uint64ToString(idx))
         IN  IF g.err # "nil" THEN [val |-> NoLog, err |-> g.err]
             ELSE LET dec == decodeLog(g.val)
                  IN  [val |-> dec.log, err |-> dec.err]

\* GetLog: the entry written to *log and the error returned
GetLog(d, isClosed, idx) ==
    IF isClosed THEN [val |-> NoLog, err |-> ErrDatabaseClosed]
    ELSE LET g == TxGet(d, dbLogs \o uint64ToString(idx))
         IN  IF g.err # "nil"
             THEN IF g.err = "ErrNotFound"
                  THEN [val |-> NoLog, err |-> "ErrLogNotFound"]
                  ELSE [val |-> NoLog, err |-> g.err]
             ELSE LET dec == decodeLog(g.val)
                  IN  [val |-> dec.log, err |-> dec.err]

\* Get that takes an empty value for a missing key
Get_emptyIsMissing(d, isClosed, k) ==
    LET g == IF isClosed THEN [val |-> <<>>, err |-> ErrDatabaseClosed]
             ELSE TxGet(d, dbConf \o k)
    IN  IF g.err = "ErrNotFound" \/ (g.err = "nil" /\ g.val = <<>>)
        THEN [val |-> <<>>, err |-> "ErrKeyNotFound"]
        ELSE [val |-> g.val, err |-> "nil"]

\* Get: the bytes and the error returned.  An engine error other than
\* ErrNotFound falls through to the final return and is dropped.
Get(d, isClosed, k) ==
    LET g    == IF isClosed THEN [val |-> <<>>, err |-> ErrDatabaseClosed]
                ELSE TxGet(d, dbConf \o k)
    IN  IF g.err = "ErrNotFound"
        THEN [val |-> <<>>, err |-> "ErrKeyNotFound"]
        ELSE [val |-> g.val, err |-> "nil"]

\* GetUint64: the number and the error returned; the number is Panic when
\* stringToUint64 panics
GetUint64(d, isClosed, k) ==
    LET g == Get(d, isClosed, k)
    IN  IF g.err # "nil" THEN [val |-> 0, err |-> g.err]
        ELSE [val |-> stringToUint64(g.val), err |-> "nil"]

----------------------------------------------------------------------------
(* The peer store of the snapshot part_002: Peers / SetPeers over JSON *)

\* a Go []string: the nil slice, or a slice of the strings elems
NilSlice == [isNil |-> TRUE, elems |-> <<>>]

Slice(e) == [isNil |-> FALSE, elems |-> e]

\* "peers", the key of the peer list
PeersKey == <<112, 101, 101, 114, 115>>

\* the bytes of the JSON literal null
JSONNull == <<110, 117, 108, 108>>

\* the lower-case hexadecimal digit of n
HexDigit(n) == IF n < 10 THEN 48 + n ELSE 87 + n

\* the value of the hexadecimal digit c, -1 when c is none
HexVal(c) ==
    IF c >= 48 /\ c <= 57 THEN c - 48
    ELSE IF c >= 97 /\ c <= 102 THEN c - 87
    ELSE IF c >= 65 /\ c <= 70 THEN c - 55
    ELSE -1

\* one byte of a string as json.Marshal writes it inside a string literal:
\* quote and backslash are escaped, control bytes and < > & are written as
\* \u00XX, the bytes of valid UTF-8 are copied
JSONQuoteByte(c) ==
    IF c = 34 THEN <<92, 34>>
    ELSE IF c = 92 THEN <<92, 92>>
    ELSE IF c = 10 THEN <<92, 110>>
    ELSE IF c = 13 THEN <<92, 114>>
    ELSE IF c = 9 THEN <<92, 116>>
    ELSE IF c < 32 \/ c \in {60, 62, 38}
         THEN <<92, 117, 48, 48, HexDigit(c \div 16), HexDigit(c % 16)>>
    ELSE <<c>>

RECURSIVE JSONQuote(_)
JSONQuote(str) ==
    IF str = <<>> THEN <<>> ELSE JSONQuoteByte(Head(str)) \o JSONQuote(Tail(str))

RECURSIVE JSONJoin(_)
\* the string literals of the elements, separated by commas
JSONJoin(elems) ==
    IF elems = <<>> THEN <<>>
    ELSE <<34>> \o JSONQuote(Head(elems)) \o <<34>>
             \o (IF Tail(elems) = <<>> THEN <<>> ELSE <<44>> \o JSONJoin(Tail(elems)))

RECURSIVE JSONJoin_noEscape(_)
\* the elements between quotes as they are, separated by commas
JSONJoin_noEscape(elems) ==
    IF elems = <<>> THEN <<>>
    ELSE <<34>> \o Head(elems) \o <<34>>
             \o (IF Tail(elems) = <<>> THEN <<>>
                 ELSE <<44>> \o JSONJoin_noEscape(Tail(elems)))

\* json.Marshal of a []string with the strings written unescaped
MarshalPeers_noEscape(peers) ==
    IF peers.isNil THEN JSONNull ELSE <<91>> \o JSONJoin_noEscape(peers.elems) \o <<93>>

\* json.Marshal of a []string
MarshalPeers(peers) ==
    IF peers.isNil THEN JSONNull ELSE <<91>> \o JSONJoin(peers.elems) \o <<93>>

\* the UTF-8 bytes of the code point cp of the basic plane
UTF8(cp) ==
    IF cp < 128 THEN <<cp>>
    ELSE IF cp < 2048 THEN <<192 + (cp \div 64), 128 + (cp % 64)>>
    ELSE <<224 + (cp \div 4096), 128 + ((cp \div 64) % 64), 128 + (cp % 64)>>

ScanFail == [ok |-> FALSE, val |-> <<>>, next |-> 0]

\* the byte an escape of one letter stands for, -1 when there is none
Unescape(c) ==
    IF c \in {34, 92, 47} THEN c
    ELSE IF c = 98 THEN 8
    ELSE IF c = 102 THEN 12
    ELSE IF c = 110 THEN 10
    ELSE IF c = 114 THEN 13
    ELSE IF c = 116 THEN 9
    ELSE -1

RECURSIVE ScanString(_, _, _)
\* the string literal of b whose first byte after the opening quote is
\* b[i]: its value after acc and the position after its closing quote
ScanString(b, i, acc) ==
    IF i > Len(b) THEN ScanFail
    ELSE IF b[i] = 34 THEN [ok |-> TRUE, val |-> acc, next |-> i + 1]
    ELSE IF b[i] < 32 THEN ScanFail
    ELSE IF b[i] # 92 THEN ScanString(b, i + 1, acc \o <<b[i]>>)
    ELSE IF i + 1 > Len(b) THEN ScanFail
    ELSE IF b[i + 1] = 117
         THEN IF i + 5 > Len(b) \/ \E m \in 2..5 : HexVal(b[i + m]) < 0
              THEN ScanFail
              ELSE ScanString(b, i + 6,
                       acc \o UTF8(4096 * HexVal(b[i + 2]) + 256 * HexVal(b[i + 3])
                                     + 16 * HexVal(b[i + 4]) + HexVal(b[i + 5])))
    ELSE IF Unescape(b[i + 1]) < 0 THEN ScanFail
    ELSE ScanString(b, i + 2, acc \o <<Unescape(b[i + 1])>>)

RECURSIVE ScanElems(_, _, _)
\* the elements of the array of b from position i, where a string literal
\* has to begin, after the elements acc
ScanElems(b, i, acc) ==
    IF i > Len(b) \/ b[i] # 34 THEN ScanFail
    ELSE LET str == ScanString(b, i + 1, <<>>)
         IN  IF ~str.ok \/ str.next > Len(b) THEN ScanFail
             ELSE IF b[str.next] = 44
                  THEN ScanElems(b, str.next + 1, Append(acc, str.val))
             ELSE IF b[str.next] = 93
                  THEN [ok |-> TRUE, val |-> Append(acc, str.val), next |-> str.next + 1]
             ELSE ScanFail

\* json.Unmarshal(val, &peers) into a nil []string, for the texts without
\* white space: null leaves the slice nil, an array of string literals
\* fills it, anything else is an error
UnmarshalPeers(b) ==
    IF b = JSONNull THEN [val |-> NilSlice, err |-> "nil"]
    ELSE IF b = <<91, 93>> THEN [val |-> Slice(<<>>), err |-> "nil"]
    ELSE IF Len(b) < 2 \/ b[1] # 91 THEN [val |-> NilSlice, err |-> "json"]
    ELSE LET r == ScanElems(b, 2, <<>>)
         IN  IF r.ok /\ r.next = Len(b) + 1
             THEN [val |-> Slice(r.val), err |-> "nil"]
             ELSE [val |-> NilSlice, err |-> "json"]

\* Get of the snapshot part_002: every error of the engine is returned
Get_part002(d, isClosed, k) ==
    LET g == IF isClosed THEN [val |-> <<>>, err |-> ErrDatabaseClosed]
             ELSE TxGet(d, dbConf \o k)
    IN  IF g.err = "ErrNotFound" THEN [val |-> <<>>, err |-> "ErrKeyNotFound"]
        ELSE IF g.err # "nil" THEN [val |-> <<>>, err |-> g.err]
        ELSE [val |-> g.val, err |-> "nil"]

\* Peers: the slice and the error returned
Peers(d, isClosed) ==
    LET g == Get_part002(d, isClosed, PeersKey)
    IN  IF g.err # "nil"
        THEN IF g.err = "ErrKeyNotFound"
             THEN [val |-> Slice(<<>>), err |-> "nil"]
             ELSE [val |-> NilSlice, err |-> g.err]
        ELSE LET u == UnmarshalPeers(g.val)
             IN  IF u.err # "nil" THEN [val |-> NilSlice, err |-> u.err]
                 ELSE [val |-> u.val, err |-> "nil"]

----------------------------------------------------------------------------
(* Inputs *)

\* the indices entries are stored at: the keys of 1 and of ByteRadix differ in
\* their first and in their second byte
LogIndices == {1, ByteRadix}

LogPayloads == { [term |-> 1,   type |-> 0, data |-> <<>>],
                 [term |-> 300, type |-> 3, data |-> <<7, 0>>] }

LogInputs == { [index |-> x, term |-> p.term, type |-> p.type, data |-> p.data] :
                   x \in LogIndices, p \in LogPayloads }

\* the indices GetLog is asked for, and the bounds DeleteRange is given
ReadIndices == {0, 2} \cup LogIndices

DelBounds == {1, 2, ByteRadix, MaxUint64}

ConfKeys == { <<>>, dbLogs }

ConfVals == { <<>>, <<1>> }

\* the numbers SetUint64 is given: the ends of the range and a number whose
\* low byte is 0
Uint64Samples == {0, ByteRadix, MaxUint64}

\* the peer names: "1", the empty name, a name of a quote and a comma, a
\* name of a backslash and a "<"
PeerNames == { <<49>>, <<>>, <<34, 44>>, <<92, 60>> }

RECURSIVE PeerLists(_)
\* the sequences of at most n peer names
PeerLists(n) ==
    IF n = 0 THEN { <<>> }
    ELSE PeerLists(n - 1)
           \cup { Append(l, x) : l \in {m \in PeerLists(n - 1) : Len(m) = n - 1},
                                 x \in PeerNames }

\* the slices SetPeers is given
PeersInputs == {NilSlice} \cup { Slice(l) : l \in PeerLists(MaxPeers) }

----------------------------------------------------------------------------
(* State *)

\* tx: pre is the content committed when the transaction began, wdb its
\* working content, wlogs the history of wdb, n the entries set or deleted
\* so far; min, max, i and wrapped belong to the loop of DeleteRange
Idle == [op |-> "idle", pre |-> EmptyDB, wdb |-> EmptyDB, wlogs |-> <<>>, n |-> 0,
         min |-> 0, max |-> 0, i |-> 0, wrapped |-> FALSE]

Ret(op, arg, err, val) == [op |-> op, arg |-> arg, err |-> err, val |-> val]

NoRet == Ret("none", <<>>, "nil", <<>>)

NoPure == [fn |-> "none", in |-> <<>>, out |-> <<>>]

Init ==
    /\ util \in Utils
    /\ closed = FALSE
    /\ db = EmptyDB
    /\ tx = Idle
    /\ ret = NoRet
    /\ logs = <<>>
    /\ conf = <<>>
    /\ pure = NoPure
    /\ file = OpenFile(Medium, EmptyDB)
    /\ conn = NewBuntStoreResult("nil").conn

\* the history of the stored entries after one more entry is stored
Stored(h, log) == [x \in DOMAIN h \cup {log.index} |-> IF x = log.index THEN log ELSE h[x]]

\* the history of the stored entries after index x is deleted
Removed(h, x) == [y \in DOMAIN h \ {x} |-> h[y]]

----------------------------------------------------------------------------
(* bunt_store.go: StoreLog / StoreLogs *)

\* every tx.Set and tx.Delete in a transaction of its own, seen at once
DuringUpdate_perEntry(d, w) == w

\* what the other transactions see of the content while the closure of one
\* db.Update runs: the content committed before it, not the working content w
DuringUpdate(d, w) == d

\* one iteration of the loop of StoreLogs on the working content w
StoreLogsIter(w, log, engineOk) ==
    LET key == dbLogs \o uint64ToString(log.index)
        enc == encodeLog(log)
    IN  IF enc.err # "nil" THEN [db |-> w, err |-> enc.err]
        ELSE IF ~engineOk THEN [db |-> w, err |-> "engine"]
        ELSE [db |-> TxSet(w, key, enc.val), err |-> "nil"]

\* StoreLog(log) is StoreLogs of the one-entry batch; StoreLogs opens one
\* db.Update for the whole batch
BeginStore(op) ==
    /\ tx.op = "idle"
    /\ IF closed
       THEN /\ ret' = Ret(op, 0, ErrDatabaseClosed, <<>>)
            /\ UNCHANGED tx
       ELSE /\ tx' = [Idle EXCEPT !.op = op, !.pre = db, !.wdb = db, !.wlogs = logs]
            /\ ret' = NoRet
    /\ UNCHANGED <<util, conn, closed, db, logs, conf, pure, file>>

BeginStoreLog == BeginStore("StoreLog")

BeginStoreLogs == BeginStore("StoreLogs")

\* the number of entries of the batch in flight is not fixed before its end
BatchOpen == IF tx.op = "StoreLog" THEN tx.n < 1 ELSE tx.n < MaxBatch

BatchDone == IF tx.op = "StoreLog" THEN tx.n = 1 ELSE TRUE

\* the next entry of the batch is encoded and set; an error rolls back
StoreLogsStep ==
    /\ tx.op \in {"StoreLog", "StoreLogs"}
    /\ BatchOpen
    /\ \E log \in LogInputs, engineOk \in BOOLEAN :
         LET r == StoreLogsIter(tx.wdb, log, engineOk)
         IN  IF r.err = "nil"
             THEN /\ tx' = [tx EXCEPT !.wdb = r.db, !.n = tx.n + 1,
                                      !.wlogs = Stored(tx.wlogs, log)]
                  /\ db' = DuringUpdate(db, r.db)
                  /\ UNCHANGED ret
             ELSE /\ tx' = Idle
                  /\ db' = db
                  /\ ret' = Ret(tx.op, tx.n, r.err, "iteration")
    /\ UNCHANGED <<util, conn, closed, logs, conf, pure, file>>

\* the closure returned nil: the transaction commits, or the commit fails
\* and the transaction is rolled back
StoreLogsCommit ==
    /\ tx.op \in {"StoreLog", "StoreLogs"}
    /\ BatchDone
    /\ \E engineOk \in BOOLEAN :
         IF engineOk
         THEN /\ db' = tx.wdb
              /\ logs' = tx.wlogs
              /\ ret' = Ret(tx.op, tx.n, "nil", "commit")
         ELSE /\ UNCHANGED <<db, logs>>
              /\ ret' = Ret(tx.op, tx.n, "engine", "commit")
    /\ tx' = Idle
    /\ file' = AfterCommit(file, db')
    /\ UNCHANGED <<util, conn, closed, conf, pure>>

----------------------------------------------------------------------------
(* bunt_store.go: DeleteRange *)

\* the loop of DeleteRange with an exclusive upper bound
DeleteRangeCond_exclusive(i, max) == i < max

\* the loop condition of DeleteRange
DeleteRangeCond(i, max) == i <= max

\* i++ on a uint64
Incr(i) == (i + 1) % (MaxUint64 + 1)

\* the loop of DeleteRange returning every error of tx.Delete
DeleteRangeIterErr_strict(err) == err

\* the error one iteration of the loop returns from the closure, given the
\* error of tx.Delete: ErrNotFound is skipped
DeleteRangeIterErr(err) ==
    IF err # "nil" THEN (IF err # "ErrNotFound" THEN err ELSE "nil") ELSE "nil"

\* the loop started at index i visits index x before i++ overflows
DeleteRangeVisits(i, max, x) ==
    DeleteRangeCond(i, max) /\ i <= x /\ DeleteRangeCond(x, max)

\* the loop from index i over the working content w, up to its next
\* iteration that finds its key: the iterations before it delete nothing.
\* "exit": the loop ends without another deletion; "hit": the key of index
\* i is the next one found; "fail": an iteration before it returns its
\* error; "wrap": i++ overflows to 0 with the condition still true.
\* Only the indices of LogIndices are ever stored (KeysStored), so they are
\* the only visited indices whose key can be found.
DeleteRangeScan(w, i, max) ==
    LET D == DOMAIN w
        H == {x \in LogIndices :
                 DeleteRangeVisits(i, max, x) /\ (dbLogs \o uint64ToString(x)) \in D}
        h == CHOOSE x \in H : \A y \in H : x <= y
    IN  IF ~DeleteRangeCond(i, max) THEN [kind |-> "exit", i |-> i]
        ELSE IF DeleteRangeIterErr("ErrNotFound") # "nil" /\ (H = {} \/ h # i)
             THEN [kind |-> "fail", i |-> i]
        ELSE IF H # {} THEN [kind |-> "hit", i |-> h]
        ELSE IF DeleteRangeVisits(i, max, MaxUint64) THEN [kind |-> "wrap", i |-> 0]
        ELSE [kind |-> "exit", i |-> i]

BeginDeleteRange ==
    /\ tx.op = "idle"
    /\ \E min \in DelBounds, max \in DelBounds :
         IF closed
         THEN /\ ret' = Ret("DeleteRange", <<min, max>>, ErrDatabaseClosed, <<>>)
              /\ UNCHANGED tx
         ELSE /\ tx' = [Idle EXCEPT !.op = "DeleteRange", !.pre = db, !.wdb = db,
                                    !.wlogs = logs,
                                    !.min = min, !.max = max, !.i = min]
              /\ ret' = NoRet
    /\ UNCHANGED <<util, conn, closed, db, logs, conf, pure, file>>

\* the loop runs up to and including its next iteration that changes the
\* working content or returns; an error rolls the transaction back
DeleteRangeStep ==
    /\ tx.op = "DeleteRange"
    /\ LET s == DeleteRangeScan(tx.wdb, tx.i, tx.max)
       IN  /\ s.kind # "exit"
           /\ \E engineOk \in BOOLEAN :
                LET d   == IF s.kind = "hit" /\ engineOk
                           THEN TxDelete(tx.wdb, dbLogs \o uint64ToString(s.i))
                           ELSE [db |-> tx.wdb,
                                 err |-> IF s.kind = "hit" THEN "engine"
                                         ELSE IF s.kind = "fail" THEN "ErrNotFound"
                                         ELSE "nil"]
                    err == DeleteRangeIterErr(d.err)
                IN  IF err # "nil"
                    THEN /\ tx' = Idle
                         /\ ret' = Ret("DeleteRange", <<tx.min, tx.max>>, err, <<>>)
                         /\ db' = db
                    ELSE /\ tx' = [tx EXCEPT
                                     !.wdb = d.db,
                                     !.n = tx.n + (IF s.kind = "hit" THEN 1 ELSE 0),
                                     !.wlogs = IF s.kind = "hit"
                                               THEN Removed(tx.wlogs, s.i)
                                               ELSE tx.wlogs,
                                     !.i = IF s.kind = "hit" THEN Incr(s.i) ELSE s.i,
                                     !.wrapped = tx.wrapped \/ s.kind = "wrap"
                                                   \/ (s.kind = "hit" /\ Incr(s.i) = 0)]
                         /\ db' = DuringUpdate(db, d.db)
                         /\ UNCHANGED ret
    /\ UNCHANGED <<util, conn, closed, logs, conf, pure, file>>

\* the loop has ended: the transaction commits, or the commit fails and the
\* transaction is rolled back
DeleteRangeCommit ==
    /\ tx.op = "DeleteRange"
    /\ DeleteRangeScan(tx.wdb, tx.i, tx.max).kind = "exit"
    /\ \E engineOk \in BOOLEAN :
         IF engineOk
         THEN /\ db' = tx.wdb
              /\ logs' = tx.wlogs
              /\ ret' = Ret("DeleteRange", <<tx.min, tx.max>>, "nil", tx.n)
         ELSE /\ UNCHANGED <<db, logs>>
              /\ ret' = Ret("DeleteRange", <<tx.min, tx.max>>, "engine", tx.n)
    /\ tx' = Idle
    /\ file' = AfterCommit(file, db')
    /\ UNCHANGED <<util, conn, closed, conf, pure>>

----------------------------------------------------------------------------
(* bunt_store.go: Set, the reads, Close *)

\* the body of Set(k, v): one db.Update with one tx.Set; op and arg name the
\* call that is recorded as returned
SetCall(op, arg, k, v) ==
    /\ tx.op = "idle"
    /\ \E engineOk \in BOOLEAN :
         IF closed
         THEN /\ ret' = Ret(op, arg, ErrDatabaseClosed, <<>>)
              /\ UNCHANGED <<db, conf>>
         ELSE IF ~engineOk
         THEN /\ ret' = Ret(op, arg, "engine", <<>>)
              /\ UNCHANGED <<db, conf>>
         ELSE /\ db' = TxSet(db, dbConf \o k, v)
              /\ conf' = [x \in DOMAIN conf \cup {k} |-> IF x = k THEN v ELSE conf[x]]
              /\ ret' = Ret(op, arg, "nil", <<>>)
    /\ file' = AfterCommit(file, db')
    /\ UNCHANGED <<util, conn, closed, tx, logs, pure>>

\* Set
Set == \E k \in ConfKeys, v \in ConfVals : SetCall("Set", <<k, v>>, k, v)

\* SetUint64 formatting the number without the padding of uint64ToString
SetUint64Val_unpadded(val) == FormatUint(val)

\* the bytes SetUint64(key, val) hands to Set
SetUint64Val(val) == uint64ToString(val)

\* SetUint64
SetUint64 ==
    \E k \in ConfKeys, val \in Uint64Samples :
        SetCall("SetUint64", <<k, val>>, k, SetUint64Val(val))

\* the reads run in a db.View, beside the write transaction if there is one
CallFirstIndex ==
    /\ LET r == FirstIndex(db, closed)
       IN  ret' = Ret("FirstIndex", <<>>, r.err, r.val)
    /\ UNCHANGED <<util, conn, closed, db, tx, logs, conf, pure, file>>

CallLastIndex ==
    /\ LET r == LastIndex(db, closed)
       IN  ret' = Ret("LastIndex", <<>>, r.err, r.val)
    /\ UNCHANGED <<util, conn, closed, db, tx, logs, conf, pure, file>>

CallGetLog ==
    /\ \E idx \in ReadIndices :
         LET r == GetLog(db, closed, idx)
         IN  ret' = Ret("GetLog", idx, r.err, r.val)
    /\ UNCHANGED <<util, conn, closed, db, tx, logs, conf, pure, file>>

CallGet ==
    /\ \E k \in ConfKeys :
         LET r == Get(db, closed, k)
         IN  ret' = Ret("Get", k, r.err, r.val)
    /\ UNCHANGED <<util, conn, closed, db, tx, logs, conf, pure, file>>

\* SetPeers: the list is marshalled (json.Marshal of a []string returns no
\* error) and Set under "peers"
SetPeers ==
    \E peers \in PeersInputs :
        SetCall("SetPeers", peers, PeersKey, MarshalPeers(peers))

CallPeers ==
    /\ LET r == Peers(db, closed)
       IN  ret' = Ret("Peers", <<>>, r.err, r.val)
    /\ UNCHANGED <<util, conn, closed, db, tx, logs, conf, pure, file>>

CallGetUint64 ==
    /\ \E k \in ConfKeys :
         LET r == GetUint64(db, closed, k)
         IN  ret' = Ret("GetUint64", k, r.err, r.val)
    /\ UNCHANGED <<util, conn, closed, db, tx, logs, conf, pure, file>>

\* Close waits for the write transaction to end
Close ==
    /\ tx.op = "idle"
    /\ IF closed
       THEN ret' = Ret("Close", <<>>, ErrDatabaseClosed, <<>>)
       ELSE ret' = Ret("Close", <<>>, "nil", <<>>)
    /\ closed' = TRUE
    /\ conn' = [conn EXCEPT !.handle = FALSE]
    /\ UNCHANGED <<util, db, tx, logs, conf, pure, file>>

Next ==
    \/ BeginStoreLog
    \/ BeginStoreLogs
    \/ StoreLogsStep
    \/ StoreLogsCommit
    \/ BeginDeleteRange
    \/ DeleteRangeStep
    \/ DeleteRangeCommit
    \/ Set
    \/ CallFirstIndex
    \/ CallLastIndex
    \/ CallGetLog
    \/ CallGet
    \/ Close

Spec == Init /\ [][Next]_vars

----------------------------------------------------------------------------
(* The stable store on its own: Set, SetUint64, Get, GetUint64, Close *)

NextStable ==
    \/ Set
    \/ SetUint64
    \/ CallGet
    \/ CallGetUint64
    \/ Close

SpecStable == Init /\ [][NextStable]_vars

----------------------------------------------------------------------------
(* Durability: the store of the snapshot part_002 is opened with a level,   *)
(* the machine may crash at any time and the file is opened again           *)

\* NewBuntStore(path, durability) on a new file; the snapshot that has the
\* levels has the decimal keys
InitDurable ==
    /\ util = "decimal"
    /\ closed = FALSE
    /\ db = EmptyDB
    /\ tx = Idle
    /\ ret = NoRet
    /\ logs = <<>>
    /\ conf = <<>>
    /\ pure = NoPure
    /\ \E durability \in Levels : file = OpenFile(durability, EmptyDB)
    /\ conn = NewBuntStoreResult("nil").conn

\* under the policy EverySecond the engine's ticker syncs the file, holding
\* the lock of the database, that is between two write transactions; under
\* the policy Never nothing is synced, and the model takes the operating
\* system to write nothing back on its own
Sync ==
    /\ file.policy = "EverySecond"
    /\ tx.op = "idle"
    /\ file.disk # db
    /\ file' = [file EXCEPT !.disk = db]
    /\ UNCHANGED <<util, conn, closed, db, tx, ret, logs, conf, pure>>

\* the entries of the log keys of the content d
LogsOf(d) ==
    [x \in {y \in LogIndices : LogKey(y) \in DOMAIN d} |-> decodeLog(d[LogKey(x)]).log]

\* the values of the metadata keys of the content d
ConfOf(d) ==
    [k \in {c \in ConfKeys : (dbConf \o c) \in DOMAIN d} |-> d[dbConf \o k]]

\* the machine crashes, the write transaction in flight and everything not
\* synced are lost, and NewBuntStore opens the same file with the same level
CrashReopen ==
    /\ db' = file.disk
    /\ tx' = Idle
    /\ closed' = FALSE
    /\ logs' = LogsOf(file.disk)
    /\ conf' = ConfOf(file.disk)
    /\ file' = OpenFile(file.level, file.disk)
    /\ ret' = Ret("NewBuntStore", file.level, "nil", <<>>)
    /\ conn' = NewBuntStoreResult("nil").conn
    /\ UNCHANGED <<util, pure>>

NextDurable ==
    \/ BeginStoreLog
    \/ BeginStoreLogs
    \/ StoreLogsStep
    \/ StoreLogsCommit
    \/ BeginDeleteRange
    \/ DeleteRangeStep
    \/ DeleteRangeCommit
    \/ Set
    \/ Sync
    \/ CrashReopen

SpecDurable == InitDurable /\ [][NextDurable]_vars

----------------------------------------------------------------------------
(* The peer store on its own *)

NextPeers ==
    \/ SetPeers
    \/ CallPeers
    \/ Close

SpecPeers == Init /\ [][NextPeers]_vars

----------------------------------------------------------------------------
(* bunt_store.go: AscendLogGreaterOrEqual *)

\* strings.HasPrefix(key, prefix)
HasPrefix(key, prefix) ==
    Len(key) >= Len(prefix) /\ SubSeq(key, 1, Len(prefix)) = prefix

\* the callers' iter: it returns false on its stop-th call, on none when
\* stop is 0
IterStops == {0, 1}

\* the iterator AscendLogGreaterOrEqual gives tx.AscendGreaterOrEqual, run
\* over the keys K still ahead in the engine's order: calls are the entries
\* passed to iter so far, err is ierr
RECURSIVE AscendLogIter(_, _, _, _)
AscendLogIter(d, K, calls, stop) ==
    IF K = {} THEN [calls |-> calls, err |-> "nil"]
    ELSE LET key == MinKey(K)
         IN  IF ~HasPrefix(key, dbLogs) THEN [calls |-> calls, err |-> "nil"]
             ELSE LET dec == decodeLog(d[key])
                  IN  IF dec.err # "nil" THEN [calls |-> calls, err |-> dec.err]
                      ELSE IF Len(calls) + 1 = stop
                      THEN [calls |-> Append(calls, dec.log), err |-> "nil"]
                      ELSE AscendLogIter(d, K \ {key}, Append(calls, dec.log), stop)

\* AscendLogGreaterOrEqual(pivot, iter): the entries passed to iter, in the
\* order of the calls, and the error returned
AscendLogGreaterOrEqual(d, isClosed, pivot, stop) ==
    IF isClosed THEN [calls |-> <<>>, err |-> ErrDatabaseClosed]
    ELSE LET from == dbLogs \o uint64ToString(pivot)
         IN  AscendLogIter(d, {k \in DOMAIN d : k = from \/ StrLess(from, k)},
                           <<>>, stop)

\* a db.View: it runs beside the write transaction, on the committed content
CallAscendLogGreaterOrEqual ==
    /\ \E pivot \in ReadIndices, stop \in IterStops :
         LET r == AscendLogGreaterOrEqual(db, closed, pivot, stop)
         IN  ret' = Ret("AscendLogGreaterOrEqual", <<pivot, stop>>, r.err, r.calls)
    /\ UNCHANGED <<util, conn, closed, db, tx, logs, conf, pure, file>>

NextAscend ==
    \/ BeginStoreLogs
    \/ StoreLogsStep
    \/ StoreLogsCommit
    \/ Set
    \/ CallAscendLogGreaterOrEqual
    \/ Close

SpecAscend == Init /\ [][NextAscend]_vars

----------------------------------------------------------------------------
(* bunt_store.go: Shrink *)

\* Shrink: b.db.Shrink(). The engine takes the lock of the database, so it
\* starts between two write transactions; it rewrites the file from the
\* content committed and leaves that content alone, or fails
Shrink ==
    /\ tx.op = "idle"
    /\ \E engineOk \in BOOLEAN :
         ret' = Ret("Shrink", <<>>,
                    IF closed THEN ErrDatabaseClosed
                    ELSE IF engineOk THEN "nil" ELSE "engine",
                    <<>>)
    /\ UNCHANGED <<util, conn, closed, db, tx, logs, conf, pure, file>>

NextShrink ==
    \/ BeginStoreLogs
    \/ StoreLogsStep
    \/ StoreLogsCommit
    \/ BeginDeleteRange
    \/ DeleteRangeStep
    \/ DeleteRangeCommit
    \/ Set
    \/ Shrink
    \/ Close

SpecShrink == Init /\ [][NextShrink]_vars

----------------------------------------------------------------------------
(* Opening: NewBuntStore may fail at each engine call, and a store that was *)
(* closed may be opened again on the same file                              *)

\* before NewBuntStore is called: no store, no handle
InitOpen ==
    /\ util \in Utils
    /\ closed = FALSE
    /\ db = EmptyDB
    /\ tx = Idle
    /\ ret = NoRet
    /\ logs = <<>>
    /\ conf = <<>>
    /\ pure = NoPure
    /\ file = OpenFile(Medium, EmptyDB)
    /\ conn = NoConn

\* NewBuntStore(path), called while no store is live; Close has flushed the
\* file, so the content a new handle loads is the content committed
NewBuntStore ==
    /\ ~conn.store \/ closed
    /\ tx.op = "idle"
    /\ \E fail \in OpenFailures :
         LET r == NewBuntStoreResult(fail)
         IN  /\ conn' = r.conn
             /\ ret' = Ret("NewBuntStore", <<>>, r.err, <<>>)
             /\ file' = IF r.err = "nil" THEN OpenFile(Medium, db) ELSE file
    /\ closed' = FALSE
    /\ UNCHANGED <<util, db, tx, logs, conf, pure>>

\* the methods are called on the store NewBuntStore returned
StoreSet == conn.store /\ Set

StoreGet == conn.store /\ CallGet

StoreClose == conn.store /\ Close

NextOpen ==
    \/ NewBuntStore
    \/ StoreSet
    \/ StoreGet
    \/ StoreClose

SpecOpen == InitOpen /\ [][NextOpen]_vars

----------------------------------------------------------------------------
(* The pure functions on their own: SpecUtil applies one of them, once, to  *)
(* an input of its input set                                                *)

KeySamples == {0, 1, 2, 9, 10, 255, 256, 257, MaxUint64 - 1, MaxUint64}

ApplyLogKey ==
    /\ pure.fn = "none"
    /\ \E i \in KeySamples, j \in KeySamples :
         pure' = [fn |-> "LogKey", in |-> <<i, j>>, out |-> <<LogKey(i), LogKey(j)>>]
    /\ UNCHANGED <<util, conn, closed, db, tx, ret, logs, conf, file>>

\* the entries the codec is applied to: the ends of the range of index and
\* term, the ends of the range of the type byte, data of length 0, 1 and 2
CodecInputs ==
    { [index |-> x, term |-> t, type |-> y, data |-> d] :
          x \in KeySamples, t \in {0, 300, MaxUint64}, y \in {0, 3, ByteRadix - 1},
          d \in { <<>>, <<0>>, <<7, 0>> } }

\* a buffer of n bytes whose 17th byte, if it has one, is t
BufOf(n, t) == [m \in 1..n |-> IF m = 17 THEN t ELSE IF m = 1 THEN 1 ELSE 0]

\* the buffers decodeLog is applied to: shorter than, as long as and longer
\* than the header
BufInputs == { BufOf(n, t) : n \in {0, 1, 8, 16, 17, 18}, t \in {0, 4, ByteRadix - 1} }

ApplyEncodeLog ==
    /\ pure.fn = "none"
    /\ \E e \in CodecInputs :
         pure' = [fn |-> "encodeLog", in |-> e,
                  out |-> <<encodeLog(e), decodeLog(encodeLog(e).val)>>]
    /\ UNCHANGED <<util, conn, closed, db, tx, ret, logs, conf, file>>

ApplyDecodeLog ==
    /\ pure.fn = "none"
    /\ \E buf \in BufInputs :
         pure' = [fn |-> "decodeLog", in |-> buf, out |-> decodeLog(buf)]
    /\ UNCHANGED <<util, conn, closed, db, tx, ret, logs, conf, file>>

\* GetLog of index x on a content that holds the bytes buf under its key
ApplyGetLog ==
    /\ pure.fn = "none"
    /\ \E x \in LogIndices, buf \in BufInputs :
         pure' = [fn |-> "GetLog", in |-> <<x, buf>>,
                  out |-> GetLog((LogKey(x) :> buf), FALSE, x)]
    /\ UNCHANGED <<util, conn, closed, db, tx, ret, logs, conf, file>>

ApplyUint64ToString ==
    /\ pure.fn = "none"
    /\ \E u \in Uint64 :
         pure' = [fn |-> "uint64ToString", in |-> u,
                  out |-> <<uint64ToString(u), stringToUint64(uint64ToString(u))>>]
    /\ UNCHANGED <<util, conn, closed, db, tx, ret, logs, conf, file>>

NextUtil ==
    \/ ApplyLogKey
    \/ ApplyEncodeLog
    \/ ApplyDecodeLog
    \/ ApplyGetLog
    \/ ApplyUint64ToString

SpecUtil == Init /\ [][NextUtil]_vars

----------------------------------------------------------------------------
(* Observations *)

StoreOps == {"StoreLog", "StoreLogs"}

MinOf(S) == CHOOSE x \in S : \A y \in S : x <= y

MaxOf(S) == CHOOSE x \in S : \A y \in S : y <= x

\* what the reads return on the content d of an open store
Reads(d) ==
    [first |-> FirstIndex(d, FALSE),
     last  |-> LastIndex(d, FALSE),
     log   |-> [x \in ReadIndices |-> GetLog(d, FALSE, x)],
     conf  |-> [k \in ConfKeys |-> Get(d, FALSE, k)]]

\* the result in ret is what its read returns on the content d of an open store
RetReadOn(d) ==
    /\ ret.op = "FirstIndex" => <<ret.err, ret.val>> = <<FirstIndex(d, FALSE).err, FirstIndex(d, FALSE).val>>
    /\ ret.op = "LastIndex" => <<ret.err, ret.val>> = <<LastIndex(d, FALSE).err, LastIndex(d, FALSE).val>>
    /\ ret.op = "GetLog" => <<ret.err, ret.val>> = <<GetLog(d, FALSE, ret.arg).err, GetLog(d, FALSE, ret.arg).val>>
    /\ ret.op = "Get" => <<ret.err, ret.val>> = <<Get(d, FALSE, ret.arg).err, Get(d, FALSE, ret.arg).val>>

\* only the keys of the indices of LogIndices and of the keys of ConfKeys
\* are ever stored
KeysStored ==
    LET K == {LogKey(x) : x \in LogIndices} \cup {dbConf \o k : k \in ConfKeys}
    IN  DOMAIN db \subseteq K /\ DOMAIN tx.wdb \subseteq K

\* uint64ToString gives different indices different keys
KeysDistinct ==
    \A x \in Uint64, y \in LogIndices : x # y => LogKey(x) # LogKey(y)

----------------------------------------------------------------------------
(* Claims *)

\* C1: on an open store, every entry stored by a successful StoreLog or
\* StoreLogs and not touched since (by a later entry with its index, of the
\* same batch or of a later call, or by a DeleteRange) is returned by GetLog
\* of its index without error and with the same index, term, type and data.
C1_GetLogReturnsStored ==
    ~closed =>
        \A x \in DOMAIN logs : GetLog(db, closed, x) = [val |-> logs[x], err |-> "nil"]

\* a StoreLogs of two entries returned success, both are stored, and one
\* has data
C1_Witness ==
    /\ ret.op = "StoreLogs" /\ ret.err = "nil" /\ ret.arg = 2
    /\ DOMAIN logs = LogIndices
    /\ \E x \in DOMAIN logs : logs[x].data # <<>>

\* C2: a StoreLog or StoreLogs that returns an error leaves every read
\* (GetLog, FirstIndex, LastIndex, Get) as it was before the call: none of
\* the entries of the call is stored.
C2_StoreLogsAllOrNothing ==
    [][(tx.op \in StoreOps /\ tx'.op = "idle" /\ ret'.err # "nil")
          => Reads(db') = Reads(tx.pre)]_vars

\* a StoreLogs failed at its second entry, after the first one was set
C2_Witness ==
    /\ ret.op = "StoreLogs" /\ ret.err = "engine"
    /\ ret.arg = 1 /\ ret.val = "iteration"

\* C3: on an open store FirstIndex returns the smallest stored index, or 0
\* when no entry is stored.
C3_FirstIndexIsSmallest ==
    (ret.op = "FirstIndex" /\ ~closed) =>
        /\ ret.err = "nil"
        /\ ret.val = IF DOMAIN logs = {} THEN 0 ELSE MinOf(DOMAIN logs)

\* C4: on an open store LastIndex returns the largest stored index, or 0
\* when no entry is stored.
C4_LastIndexIsLargest ==
    (ret.op = "LastIndex" /\ ~closed) =>
        /\ ret.err = "nil"
        /\ ret.val = IF DOMAIN logs = {} THEN 0 ELSE MaxOf(DOMAIN logs)

\* C5: on an open store GetLog returns ErrLogNotFound exactly for the
\* indices at which no entry is stored, and no other error for them.
C5_GetLogNotFoundIffAbsent ==
    ~closed =>
        /\ \A x \in ReadIndices :
              GetLog(db, closed, x).err = "ErrLogNotFound" <=> x \notin DOMAIN logs
        /\ ret.op = "GetLog" =>
              (ret.err = "ErrLogNotFound" <=> ret.arg \notin DOMAIN logs)

\* GetLog returned ErrLogNotFound for an index that is not stored while
\* another one is
C5_Witness ==
    /\ ~closed /\ ret.op = "GetLog" /\ ret.err = "ErrLogNotFound"
    /\ ret.arg \in LogIndices /\ DOMAIN logs # {}

\* C6: when DeleteRange(min, max) commits, GetLog returns ErrLogNotFound for
\* every index of min..max and what it returned before the call for every
\* index outside min..max.
C6_DeleteRangeRemovesRange ==
    [][(tx.op = "DeleteRange" /\ tx'.op = "idle" /\ ret'.err = "nil")
          => \A x \in ReadIndices :
                IF tx.min <= x /\ x <= tx.max
                THEN GetLog(db', FALSE, x).err = "ErrLogNotFound"
                ELSE GetLog(db', FALSE, x) = GetLog(tx.pre, FALSE, x)]_vars

\* DeleteRange(1, 2) returned success, deleted an entry and left the entry
\* of index ByteRadix stored
C6_Witness ==
    /\ ret.op = "DeleteRange" /\ ret.err = "nil" /\ ret.arg = <<1, 2>>
    /\ ret.val = 1 /\ ByteRadix \in DOMAIN logs /\ ~closed
    /\ GetLog(db, closed, ByteRadix).err = "nil"

\* C7: DeleteRange never returns ErrNotFound: it returns success or the
\* error of the engine, and when it returns success no index of min..max
\* has a key left, whether it had one or not.
C7_DeleteRangeSkipsAbsent ==
    [][(tx.op = "DeleteRange" /\ tx'.op = "idle")
          => /\ ret'.err \in {"nil", "engine"}
             /\ ret'.err = "nil" =>
                  \A x \in LogIndices :
                      (tx.min <= x /\ x <= tx.max) => LogKey(x) \notin DOMAIN db']_vars

\* DeleteRange(1, ByteRadix) returned success over a range of which only
\* two indices were stored
C7_Witness ==
    /\ ret.op = "DeleteRange" /\ ret.err = "nil"
    /\ ret.arg = <<1, ByteRadix>> /\ ret.val = 2 /\ DOMAIN logs = {}

\* C8: for indices i < j the key of i sorts before the key of j in the
\* byte-wise order of the engine.
C8_KeyOrder ==
    (pure.fn = "LogKey" /\ pure.in[1] < pure.in[2])
        => StrLess(pure.out[1], pure.out[2])

\* C9: while a StoreLog, StoreLogs or DeleteRange is in flight, every read
\* returns what it returned before the call began, whatever the call has
\* set or deleted so far.
C9_ReadsSeeNoUncommitted ==
    tx.op # "idle" => Reads(db) = Reads(tx.pre) /\ RetReadOn(tx.pre)

\* GetLog ran beside a StoreLogs that had set the entry of its index and
\* returned ErrLogNotFound
C9_Witness ==
    /\ tx.op = "StoreLogs" /\ tx.n >= 1
    /\ ret.op = "GetLog" /\ ret.err = "ErrLogNotFound"
    /\ ret.arg \in DOMAIN tx.wlogs

\* C10: on an open store Get returns ErrKeyNotFound exactly for the keys
\* never Set, and for the others the value of their most recent Set.
C10_GetReturnsLastSet ==
    ~closed =>
        /\ \A k \in ConfKeys :
              Get(db, closed, k) = IF k \in DOMAIN conf
                                   THEN [val |-> conf[k], err |-> "nil"]
                                   ELSE [val |-> <<>>, err |-> "ErrKeyNotFound"]
        /\ ret.op = "Get" =>
              <<ret.err, ret.val>> = IF ret.arg \in DOMAIN conf
                                     THEN <<"nil", conf[ret.arg]>>
                                     ELSE <<"ErrKeyNotFound", <<>> >>

\* Get returned the empty value of a key that was Set to it after another
\* value
C10_Witness ==
    /\ ~closed /\ ret.op = "Get" /\ ret.err = "nil" /\ ret.val = <<>>
    /\ ret.arg \in DOMAIN conf /\ DOMAIN conf = ConfKeys

\* the bytes v are what uint64ToString gives for some number
ValidUint64(v) == \E u \in Uint64 : uint64ToString(u) = v

\* C11: Get and GetUint64 on a closed store return the engine's error
\* (ErrDatabaseClosed), not a value with a nil error.
C11_GetReturnsEngineError ==
    (closed /\ ret.op \in {"Get", "GetUint64"}) => ret.err = ErrDatabaseClosed

\* C13: on an open store GetUint64 of a key whose latest value was written
\* by SetUint64(k, u) returns u without error, for u = 0 and u = 2^64-1 as
\* for the others, and GetUint64 of a key never set returns ErrKeyNotFound.
C13_Uint64RoundTrip ==
    ~closed =>
        /\ \A k \in ConfKeys :
              IF k \notin DOMAIN conf
              THEN GetUint64(db, closed, k) = [val |-> 0, err |-> "ErrKeyNotFound"]
              ELSE \A u \in Uint64Samples :
                       conf[k] = SetUint64Val(u) =>
                           GetUint64(db, closed, k) = [val |-> u, err |-> "nil"]
        /\ (ret.op = "GetUint64" /\ ret.arg \notin DOMAIN conf)
              => ret.err = "ErrKeyNotFound"
        /\ (ret.op = "GetUint64" /\ ret.arg \in DOMAIN conf)
              => \A u \in Uint64Samples :
                     conf[ret.arg] = SetUint64Val(u) => (ret.err = "nil" /\ ret.val = u)

\* GetUint64 returned the largest number, written by SetUint64 over an
\* earlier value of another key that GetUint64 does not find
C13_Witness ==
    /\ ~closed /\ ret.op = "GetUint64" /\ ret.err = "nil" /\ ret.val = MaxUint64
    /\ ret.arg \in DOMAIN conf /\ conf[ret.arg] = SetUint64Val(MaxUint64)
    /\ \E k \in ConfKeys : GetUint64(db, closed, k).err = "ErrKeyNotFound"

\* C14: on an open store GetUint64 of a key whose stored value is not the
\* encoding of a number returns an error: it neither returns a number with
\* a nil error nor panics.
C14_GetUint64ParseFailure ==
    (~closed /\ ret.op = "GetUint64" /\ ret.arg \in DOMAIN conf
        /\ ~ValidUint64(conf[ret.arg]))
        => (ret.err # "nil" /\ ret.val # Panic)

\* what the log store returns on the content d of an open store
LogReads(d) ==
    [first |-> FirstIndex(d, FALSE),
     last  |-> LastIndex(d, FALSE),
     log   |-> [x \in ReadIndices |-> GetLog(d, FALSE, x)]]

\* what the stable store returns on the content d of an open store
ConfReads(d) == [k \in ConfKeys |-> Get(d, FALSE, k)]

\* C12: a Set(k, v) leaves FirstIndex, LastIndex and GetLog of every index
\* as they were, also for k = "" and k = "l:", and every step of StoreLog,
\* StoreLogs and DeleteRange, their commit included, leaves Get of every key
\* as it was.
C12_NamespacesDisjoint ==
    [][/\ (ret'.op = "Set" /\ tx.op = "idle") => LogReads(db') = LogReads(db)
       /\ (tx.op \in StoreOps \cup {"DeleteRange"}) => ConfReads(db') = ConfReads(db)]_vars

\* Set of the key "l:" returned success on a store that holds both log
\* entries and the metadata key ""
C12_Witness ==
    /\ ~closed /\ ret.op = "Set" /\ ret.err = "nil" /\ ret.arg[1] = dbLogs
    /\ DOMAIN logs = LogIndices /\ DOMAIN conf = ConfKeys
    /\ FirstIndex(db, closed).val \in LogIndices

\* C15: on an open store Peers returns an empty sequence and no error while
\* no peer list was ever set, and once SetPeers(p) has succeeded it returns
\* the elements of the latest p in their order, the list being held under
\* the metadata key "peers", of which Get then returns the value.
C15_PeersRoundTrip ==
    ~closed =>
        IF PeersKey \notin DOMAIN conf
        THEN /\ Peers(db, closed) = [val |-> Slice(<<>>), err |-> "nil"]
             /\ Get_part002(db, closed, PeersKey).err = "ErrKeyNotFound"
             /\ ret.op = "Peers" => (ret.err = "nil" /\ ret.val.elems = <<>>)
        ELSE \A p \in PeersInputs :
                 conf[PeersKey] = MarshalPeers(p) =>
                     /\ Peers(db, closed).err = "nil"
                     /\ Peers(db, closed).val.elems = p.elems
                     /\ Get_part002(db, closed, PeersKey).err = "nil"
                     /\ Get(db, closed, PeersKey).err = "nil"
                     /\ ret.op = "Peers" => (ret.err = "nil" /\ ret.val.elems = p.elems)
                     /\ (ret.op = "SetPeers" /\ ret.err = "nil") => ret.arg.elems = p.elems

\* Peers returned the two names set by SetPeers, the second being the one
\* with a quote and a comma
C15_Witness ==
    /\ ~closed /\ ret.op = "Peers" /\ ret.err = "nil"
    /\ ret.val.elems = << <<92, 60>>, <<34, 44>> >>
    /\ PeersKey \in DOMAIN conf

\* C16: for every entry e, encodeLog(e) succeeds and has 17 + len(e.data)
\* bytes, with the index in bytes [0,8), the term in bytes [8,16), the type
\* in byte 16 and the data from byte 17 on, and decodeLog of it succeeds and
\* gives back e.
C16_CodecRoundTrip ==
    pure.fn = "encodeLog" =>
        LET e   == pure.in
            enc == pure.out[1]
            dec == pure.out[2]
        IN  /\ enc.err = "nil"
            /\ Len(enc.val) = 17 + Len(e.data)
            /\ UintLE(SubSeq(enc.val, 1, 8)) = e.index
            /\ UintLE(SubSeq(enc.val, 9, 16)) = e.term
            /\ enc.val[17] = e.type
            /\ SubSeq(enc.val, 18, Len(enc.val)) = e.data
            /\ dec.err = "nil"
            /\ dec.log = e

\* the codec was applied to an entry with the largest index and term, the
\* largest type byte and no data
C16_Witness ==
    /\ pure.fn = "encodeLog" /\ pure.in.data = <<>>
    /\ pure.in.index = MaxUint64 /\ pure.in.term = MaxUint64
    /\ pure.in.type = ByteRadix - 1
    /\ pure.out[2].log.index = MaxUint64

\* C17: for every u of the uint64 range, 0 and the largest included,
\* stringToUint64(uint64ToString(u)) = u, and uint64ToString(u) is as long
\* as uint64ToString(0).
C17_KeyRoundTrip ==
    pure.fn = "uint64ToString" =>
        /\ pure.out[2] = pure.in
        /\ Len(pure.out[1]) = Len(uint64ToString(0))

\* the key encoder was applied to the largest uint64 and decoded back
C17_Witness ==
    pure.fn = "uint64ToString" /\ pure.in = MaxUint64 /\ pure.out[2] = MaxUint64

\* C18: decodeLog returns the invalid-buffer error exactly for the buffers
\* shorter than 17 bytes and succeeds on every longer one, whatever its type
\* byte; GetLog of an index whose stored value is shorter than 17 bytes
\* returns the invalid-buffer error and no entry.
C18_InvalidBuffer ==
    /\ pure.fn = "decodeLog" =>
          /\ pure.out.err = "invalid buffer" <=> Len(pure.in) < 17
          /\ Len(pure.in) >= 17 =>
                (pure.out.err = "nil" /\ pure.out.log.type = pure.in[17])
    /\ pure.fn = "GetLog" =>
          IF Len(pure.in[2]) < 17
          THEN pure.out = [val |-> NoLog, err |-> "invalid buffer"]
          ELSE pure.out.err = "nil"

\* GetLog returned the invalid-buffer error for a stored value of 16 bytes
C18_Witness ==
    /\ pure.fn = "GetLog" /\ Len(pure.in[2]) = 16
    /\ pure.out.err = "invalid buffer"

\* the keys of the content d that begin with the log prefix
LogKeysOf(d) == {k \in DOMAIN d : Len(k) >= Len(dbLogs) /\ SubSeq(k, 1, Len(dbLogs)) = dbLogs}

\* C19: when a StoreLog of an entry e2 whose index x is already stored
\* commits, GetLog(x) returns e2 and the stored record is the encoding of e2
\* alone, of 17 + len(e2.data) bytes, also when e2 has less data than the
\* entry it replaces; the number of stored entries is what it was, and the
\* records and the entries at the other indices are what they were.
C19_OverwriteReplaces ==
    [][(tx.op = "StoreLog" /\ tx'.op = "idle" /\ ret'.err = "nil"
            /\ DOMAIN tx.wlogs = DOMAIN logs)
          => /\ Cardinality(LogKeysOf(db')) = Cardinality(LogKeysOf(db))
             /\ \A x \in DOMAIN logs :
                   /\ GetLog(db', FALSE, x) = [val |-> tx.wlogs[x], err |-> "nil"]
                   /\ Len(db'[LogKey(x)]) = 17 + Len(tx.wlogs[x].data)
                   /\ tx.wlogs[x] = logs[x] =>
                         /\ db'[LogKey(x)] = db[LogKey(x)]
                         /\ GetLog(db', FALSE, x) = GetLog(db, FALSE, x)]_vars

\* a StoreLog has set, and is about to commit, an entry without data over
\* the stored entry of its index, which has two bytes of data, while the
\* other index is stored too
C19_Witness ==
    /\ tx.op = "StoreLog" /\ tx.n = 1 /\ DOMAIN logs = LogIndices
    /\ \E x \in DOMAIN logs :
          /\ logs[x].data = <<7, 0>> /\ tx.wlogs[x].data = <<>>
          /\ Len(tx.pre[LogKey(x)]) = 19 /\ Len(tx.wdb[LogKey(x)]) = 17

\* C20: on a store opened with level High, every StoreLog, StoreLogs,
\* DeleteRange and Set that has returned success is on disk: a crash at any
\* later point followed by a reopen of the file gives every read what it
\* gave before the crash.  No operation of the store changes the level or
\* the sync policy set at open, which is Never for Low, EverySecond for
\* Medium and Always for High.
C20_HighIsDurable ==
    [][/\ (file.level = High /\ ret'.op = "NewBuntStore") => Reads(db') = Reads(db)
       /\ file'.level = file.level
       /\ file'.policy = file.policy
       /\ file'.policy = (IF file'.level = Low THEN "Never"
                          ELSE IF file'.level = Medium THEN "EverySecond"
                          ELSE "Always")]_vars

\* a store of level High was reopened after a crash, and holds what was
\* committed before it: the log entry of index ByteRadix, none of index 1,
\* and a metadata key
C20_Witness ==
    /\ file.level = High /\ ret.op = "NewBuntStore" /\ ~closed
    /\ DOMAIN logs # {} /\ DOMAIN conf # {}
    /\ GetLog(db, closed, ByteRadix).err = "nil"
    /\ GetLog(db, closed, 1).err = "ErrLogNotFound"

----------------------------------------------------------------------------
(* C21: the handle on every exit path of NewBuntStore and after Close *)

\* C21: the engine handle is open exactly when NewBuntStore returned a store
\* that has not been closed: a NewBuntStore that failed, at Open, ReadConfig
\* or SetConfig, returned no store and left no handle open, and after Close
\* the handle is released.
C21_HandleOpenIffLiveStore ==
    /\ conn.handle <=> (conn.store /\ ~closed)
    /\ (ret.op = "NewBuntStore" /\ ret.err # "nil") => (~conn.store /\ ~conn.handle)
    /\ (ret.op = "NewBuntStore" /\ ret.err = "nil") => (conn.store /\ conn.handle)
    /\ ret.op = "Close" => ~conn.handle

\* a store was opened, written and closed, and opening the file again has
\* failed at SetConfig
C21_Witness ==
    /\ ret.op = "NewBuntStore"
    /\ ret.err = "SetConfig"
    /\ conf # <<>>
    /\ ~conn.handle

----------------------------------------------------------------------------
(* C22: the loop of DeleteRange ends *)

\* C22: DeleteRange(min, max) terminates for every pair of bounds, max =
\* 2^64-1 included: a DeleteRange in flight is never in a state of its loop
\* that a pass of the index over every value, past 2^64-1 and back to 0,
\* leaves as it was. From such a state the loop repeats the same pass for
\* ever, the condition i <= max is never false and the write transaction is
\* never ended.
C22_DeleteRangeTerminates ==
    tx.op = "DeleteRange" =>
        LET s == DeleteRangeScan(tx.wdb, tx.i, tx.max)
        IN  ~(s.kind = "wrap" /\ tx.wrapped /\ s.i = tx.i)

----------------------------------------------------------------------------
(* C23: FirstIndex and LastIndex against each other and against GetLog *)

\* C23: in every state of an open store that StoreLog, StoreLogs,
\* DeleteRange and Set reach, FirstIndex() <= LastIndex(), and whenever an
\* entry is stored GetLog(FirstIndex()) and GetLog(LastIndex()) succeed and
\* return entries whose index is the index asked for.
C23_FirstNotAfterLast ==
    ~closed =>
        LET f == FirstIndex(db, closed)
            l == LastIndex(db, closed)
        IN  /\ f.err = "nil" /\ l.err = "nil"
            /\ f.val <= l.val
            /\ DOMAIN logs # {} =>
                  /\ GetLog(db, closed, f.val).err = "nil"
                  /\ GetLog(db, closed, f.val).val.index = f.val
                  /\ GetLog(db, closed, l.val).err = "nil"
                  /\ GetLog(db, closed, l.val).val.index = l.val

----------------------------------------------------------------------------
(* C24: what AscendLogGreaterOrEqual passes to iter *)

\* the stored indices from pivot upwards
C24_FromPivot(pivot) == {x \in DOMAIN logs : x >= pivot}

\* C24: on an open store AscendLogGreaterOrEqual(pivot, iter) returns nil
\* and has called iter on stored entries of index >= pivot only, each the
\* entry stored at its index, in strictly ascending order of index and
\* leaving out none below the last one passed; it has passed all of them
\* unless iter returned false, and then the one passed last is the one iter
\* stopped at.
C24_AscendVisitsFromPivotInOrder ==
    (ret.op = "AscendLogGreaterOrEqual" /\ ~closed) =>
        LET pivot == ret.arg[1]
            stop  == ret.arg[2]
            calls == ret.val
            S     == C24_FromPivot(pivot)
            seen  == {calls[n].index : n \in 1..Len(calls)}
        IN  /\ ret.err = "nil"
            /\ \A n \in 1..Len(calls) :
                  /\ calls[n].index \in S
                  /\ calls[n] = logs[calls[n].index]
            /\ \A n \in 1..Len(calls), m \in 1..Len(calls) :
                  n < m => calls[n].index < calls[m].index
            /\ \A x \in S \ seen : \A y \in seen : y < x
            /\ IF stop = 0 \/ Cardinality(S) < stop
               THEN Len(calls) = Cardinality(S)
               ELSE Len(calls) = stop

----------------------------------------------------------------------------
(* C25: compaction *)

\* C25: the engine's automatic shrinking is disabled on every open handle,
\* from NewBuntStore onwards, so that the file is compacted by a call of
\* Shrink only; and a call of Shrink leaves the content and the histories
\* as they were: FirstIndex, LastIndex, GetLog of every index and Get of
\* every key return after it what they returned before it.
C25_ShrinkOnlyOnCallAndNoChange ==
    [][/\ conn.handle => conn.autoShrinkDisabled
       /\ conn'.handle => conn'.autoShrinkDisabled
       /\ ret'.op = "Shrink" =>
             /\ Reads(db') = Reads(db)
             /\ db' = db /\ logs' = logs /\ conf' = conf
             /\ conn' = conn]_vars

\* Shrink has returned nil on an open store that holds an entry and a
\* metadata value
C25_Witness ==
    /\ ret.op = "Shrink" /\ ret.err = "nil"
    /\ conn.handle /\ conn.autoShrinkDisabled
    /\ DOMAIN logs # {}
    /\ conf # <<>>

====
